---- MODULE Spec2Model ----
(***************************************************************************)
(* Reconciliation logic of the PowerFlex SDC module                        *)
(* (plugins/modules/dellemc_powerflex_sdc.py) and of the NVMe host module  *)
(* (plugins/modules/nvme_host.py).                                         *)
(*                                                                         *)
(* A behaviour is one playbook task (a module and its parameters) run      *)
(* again and again against a remote PowerFlex system.  One step is one     *)
(* whole invocation of perform_module_operation: every remote call it      *)
(* makes, up to exit_json or fail_json.                                    *)
(*                                                                         *)
(* Python values:                                                          *)
(*   a str is a sequence of one-character strings, <<"n","1">>;            *)
(*   an optional value is <<>> for None and <<v>> for the value v.         *)
(***************************************************************************)
EXTENDS Integers, Sequences, FiniteSets, TLC

VARIABLES
    module,   \* the module of the task: "sdc" or "nvme_host"
    params,   \* self.module.params of the task
    remote,   \* the resources the remote system holds
    before,   \* the resources it held when the last invocation began
    result    \* what the last invocation returned, with the calls it issued

vars == <<module, params, remote, before, result>>

----------------------------------------------------------------------------
(* Bounds *)

\* maxNumPaths and maxNumSysPorts range over 1..MaxLimit.
MaxLimit == 2

----------------------------------------------------------------------------
(* Python values *)

None == <<>>

Some(v) == <<v>>

\* Python truthiness of an optional str: None and "" are falsy.
Truthy(o) == o # None /\ Len(o[1]) > 0

\* a or b
PyOr(a, b) == IF Truthy(a) THEN a ELSE b

RECURSIVE LStrip(_)
LStrip(s) == IF s # <<>> /\ Head(s) = " " THEN LStrip(Tail(s)) ELSE s

RECURSIVE RStrip(_)
RStrip(s) ==
    IF s # <<>> /\ s[Len(s)] = " " THEN RStrip(SubSeq(s, 1, Len(s) - 1)) ELSE s

\* str.strip()
Strip(s) == RStrip(LStrip(s))

\* param is not None and len(param.strip()) == 0
IsBlank(o) == o # None /\ Len(Strip(o[1])) = 0

Digits == <<"0", "1", "2", "3", "4", "5", "6", "7", "8", "9">>

\* str(n) for a natural number n
RECURSIVE PyStr(_)
PyStr(n) ==
    IF n < 10 THEN <<Digits[n + 1]>>
    ELSE PyStr(n \div 10) \o <<Digits[(n % 10) + 1]>>

IsDigit(c) == \E d \in 1..10 : Digits[d] = c

DigitValue(c) == (CHOOSE d \in 1..10 : Digits[d] = c) - 1

IsNumeral(s) == s # <<>> /\ \A i \in 1..Len(s) : IsDigit(s[i])

\* the number a decimal numeral denotes
RECURSIVE ParseInt(_)
ParseInt(s) ==
    IF s = <<>> THEN 0
    ELSE 10 * ParseInt(SubSeq(s, 1, Len(s) - 1)) + DigitValue(s[Len(s)])

----------------------------------------------------------------------------
(* The values a task can name *)

Id(k) == <<"i", "d", Digits[k + 1]>>

Name(k) == <<"n", Digits[k + 1]>>

Nqn(k) == <<"n", "q", "n", Digits[k + 1]>>

Ip(k) == <<"1", "0", ".", Digits[k + 1]>>

\* a name no resource of the initial remote system carries
FreshName == Name(0)

EmptyStr == <<>>

SpaceStr == <<" ">>

BlankValues == {Some(EmptyStr), Some(SpaceStr)}

\* The resources the remote system can hold: resource k has id Id(k) and, in
\* the initial state, name Name(k), NQN Nqn(k) and IP Ip(k).  Two are enough
\* for a task to meet a resource of its own and one that is in its way.
Index == {1, 2}

----------------------------------------------------------------------------
(* The remote system, as the modules call it through powerflex_conn.        *)
(* A resource is a record; the collection is a set of records in which ids, *)
(* names, NQNs and IPs are unique.  Every call may also raise for reasons   *)
(* of its own (transport, authorisation): the fault of an invocation names  *)
(* the one call that does.                                                  *)

\* the remote calls of nvme_host.py, and "none"
NvmeFaults ==
    {"none", "get", "rename", "modify_max_num_paths",
     "modify_max_num_sys_ports", "create", "get_created", "delete",
     "get_final"}

\* the remote calls of dellemc_powerflex_sdc.py, and "none"
SdcFaults ==
    {"none", "get", "get_mapped_volumes", "rename", "get_final",
     "get_mapped_volumes_final"}

\* powerflex_conn.sdc.get(filter_fields={field: value}); value is a str
RemoteGet(rem, field, value) ==
    {r \in rem :
        IF field = "name" THEN r.name = Some(value) ELSE r[field] = value}

\* the first element of a non-empty answer of sdc.get
First(found) == CHOOSE r \in found : TRUE

\* powerflex_conn.sdc.rename(sdc_id, name); name is the optional str passed
RemoteRename(rem, id, name) ==
    LET target == RemoteGet(rem, "id", id)
        taken == {r \in rem : r.id # id /\ r.name = name}
    IN  IF target = {} \/ taken # {} \/ name = None
        THEN [ok |-> FALSE, remote |-> rem]
        ELSE [ok |-> TRUE,
              remote |-> {IF r.id = id THEN [r EXCEPT !.name = name] ELSE r :
                            r \in rem}]

\* the limit a create or modify request asks for: an optional str
LimitAccepted(value) ==
    /\ value # None
    /\ IsNumeral(value[1])
    /\ ParseInt(value[1]) \in 1..MaxLimit

\* powerflex_conn.host.modify_max_num_paths / modify_max_num_sys_ports
RemoteModifyLimit(rem, id, field, value) ==
    LET target == RemoteGet(rem, "id", id)
    IN  IF target = {} \/ ~LimitAccepted(value)
        THEN [ok |-> FALSE, remote |-> rem]
        ELSE [ok |-> TRUE,
              remote |-> {IF r.id = id
                          THEN [r EXCEPT ![field] = ParseInt(value[1])]
                          ELSE r : r \in rem}]

\* powerflex_conn.sdc.delete(id)
RemoteDelete(rem, id) ==
    LET target == RemoteGet(rem, "id", id)
    IN  IF target = {}
        THEN [ok |-> FALSE, remote |-> rem]
        ELSE [ok |-> TRUE, remote |-> rem \ target]

\* the limit a created host gets: the one asked for, else the system's default
CreatedLimit(value) == IF Truthy(value) THEN ParseInt(value[1]) ELSE 1

\* powerflex_conn.host.create(nqn, name, max_num_paths, max_num_sys_ports)
RemoteCreate(rem, nqn, name, max_num_paths, max_num_sys_ports) ==
    LET free == {k \in Index : RemoteGet(rem, "id", Id(k)) = {}}
        k == CHOOSE i \in free : \A j \in free : i <= j
        host == [id |-> Id(k), name |-> name, nqn |-> nqn[1],
                 maxNumPaths |-> CreatedLimit(max_num_paths),
                 maxNumSysPorts |-> CreatedLimit(max_num_sys_ports)]
    IN  IF \/ free = {}
           \/ ~Truthy(nqn)
           \/ RemoteGet(rem, "nqn", nqn[1]) # {}
           \/ (name # None /\ {r \in rem : r.name = name} # {})
           \/ (Truthy(max_num_paths) /\ ~LimitAccepted(max_num_paths))
           \/ (Truthy(max_num_sys_ports) /\ ~LimitAccepted(max_num_sys_ports))
        THEN [ok |-> FALSE, remote |-> rem, created |-> None]
        ELSE [ok |-> TRUE, remote |-> rem \cup {host}, created |-> Some(host)]

\* powerflex_conn.sdc.get_mapped_volumes(sdc_id): the volumes mapped to an
\* SDC, which no operation of these modules changes
RemoteMappedVolumes(id) == IF id = Id(1) THEN <<>> ELSE <<"vol">>

\* one mutating call as issued: what was called, on which id, with which
\* arguments, and whether the remote system carried it out
Call(op, id, args, ok) == [op |-> op, id |-> id, args |-> args, ok |-> ok]

----------------------------------------------------------------------------
(* What an invocation hands back *)

\* exit_json(changed, <resource>_details)
Exit(rem, changed, details, calls, lookups) ==
    [remote |-> rem, failed |-> FALSE, msg |-> "", changed |-> changed,
     details |-> details, calls |-> calls, lookups |-> lookups]

\* fail_json(msg): the invocation ends here, with no changed flag or details
FailJson(rem, msg, calls, lookups) ==
    [remote |-> rem, failed |-> TRUE, msg |-> msg, changed |-> FALSE,
     details |-> None, calls |-> calls, lookups |-> lookups]

----------------------------------------------------------------------------
(* plugins/modules/nvme_host.py *)

\* PowerFlexNvmeHost.validate_parameters: "" when the parameters pass
nvme_validate_parameters(p) ==
    IF IsBlank(p.nvme_host_id) THEN "Please provide valid nvme_host_id"
    ELSE IF IsBlank(p.nvme_host_name) THEN "Please provide valid nvme_host_name"
    ELSE IF p.nvme_host_id = None /\ p.nvme_host_name = None /\ p.nqn = None
    THEN "Please provide at least one of nvme_host_id, nvme_host_name or nqn"
    ELSE ""

not_found_is_error_never(nvme_host_id) == FALSE

\* get_nvme_host, "if nvme_host_id:" under "if len(nvme_host_details) == 0:"
not_found_is_error(nvme_host_id) == Truthy(nvme_host_id)

filter_fields_nqn_first(nvme_host_id, nvme_host_name, nqn) ==
    IF Truthy(nvme_host_name)
    THEN [field |-> "name", value |-> nvme_host_name[1]]
    ELSE IF Truthy(nqn)
    THEN [field |-> "nqn", value |-> nqn[1]]
    ELSE [field |-> "id", value |-> nvme_host_id[1]]

\* get_nvme_host, the if / elif / elif in the try: the filter_fields of the
\* one sdc.get call (used only when a selector is truthy)
filter_fields(nvme_host_id, nvme_host_name, nqn) ==
    IF Truthy(nvme_host_name)
    THEN [field |-> "name", value |-> nvme_host_name[1]]
    ELSE IF Truthy(nvme_host_id)
    THEN [field |-> "id", value |-> nvme_host_id[1]]
    ELSE [field |-> "nqn", value |-> nqn[1]]

\* PowerFlexNvmeHost.get_nvme_host.  With no truthy selector neither id_name
\* nor nvme_host_details is bound: len() raises UnboundLocalError, and the
\* handler raises it again while formatting its message.
get_nvme_host(rem, nvme_host_id, nvme_host_name, nqn, raises) ==
    LET f == filter_fields(nvme_host_id, nvme_host_name, nqn)
        found == RemoteGet(rem, f.field, f.value)
    IN  IF ~Truthy(nvme_host_name) /\ ~Truthy(nvme_host_id) /\ ~Truthy(nqn)
        THEN [failed |-> TRUE, msg |-> "UnboundLocalError",
              details |-> None, lookups |-> 0]
        ELSE IF raises
        THEN [failed |-> TRUE, msg |-> "Failed to get the NVMe host",
              details |-> None, lookups |-> 1]
        ELSE IF found = {}
        THEN IF not_found_is_error(nvme_host_id)
             THEN [failed |-> TRUE,
                   msg |-> "Unable to find NVMe host with identifier",
                   details |-> None, lookups |-> 1]
             ELSE [failed |-> FALSE, msg |-> "", details |-> None,
                   lookups |-> 1]
        ELSE [failed |-> FALSE, msg |-> "", details |-> Some(First(found)),
              lookups |-> 1]

create_args_unnamed(nqn, name, max_num_paths, max_num_sys_ports) ==
    <<nqn, None, max_num_paths, max_num_sys_ports>>

\* create_nvme_host: the keyword arguments of host.create
create_args(nqn, name, max_num_paths, max_num_sys_ports) ==
    <<nqn, name, max_num_paths, max_num_sys_ports>>

\* PowerFlexNvmeHost.create_nvme_host.  Returns what host.create returned.
create_nvme_host(rem, nqn, name, max_num_paths, max_num_sys_ports, fault) ==
    LET args == create_args(nqn, name, max_num_paths, max_num_sys_ports)
        made == RemoteCreate(rem, args[1], args[2], args[3], args[4])
    IN  IF nqn = None \/ Len(Strip(nqn[1])) = 0
        THEN [remote |-> rem, failed |-> TRUE,
              msg |-> "Please provide valid NQN.", created |-> None,
              calls |-> <<>>]
        ELSE IF fault = "create" \/ ~made.ok
        THEN [remote |-> rem, failed |-> TRUE,
              msg |-> "Create NVMe host operation failed",
              created |-> None, calls |-> <<Call("create", None, args, FALSE)>>]
        ELSE [remote |-> made.remote, failed |-> FALSE, msg |-> "",
              created |-> made.created,
              calls |-> <<Call("create", None, args, TRUE)>>]

\* create_host, from "if created_nvme:": fetch the created host by its id.
\* c is what create_nvme_host left.
fetch_created(c, lookups, fault) ==
    LET g == get_nvme_host(c.remote, Some(c.created[1].id), None, None,
                           fault = "get_created")
    IN  IF c.failed
        THEN FailJson(c.remote, c.msg, c.calls, lookups)
        ELSE IF g.failed
        THEN FailJson(c.remote, g.msg, c.calls, lookups + g.lookups)
        ELSE Exit(c.remote, TRUE, g.details, c.calls, lookups + g.lookups)

\* PowerFlexNvmeHost.create_host: (nvme_host_details, changed)
create_host(rem, p, lookups, fault) ==
    IF ~Truthy(p.nqn)
    THEN FailJson(rem, "nqn parameter is required for creating an NVMe host.",
                  <<>>, lookups)
    ELSE IF Truthy(p.nvme_host_new_name)
    THEN FailJson(rem, "nvme_host_new_name parameter is not supported during creation",
                  <<>>, lookups)
    ELSE fetch_created(
             create_nvme_host(rem, p.nqn, p.nvme_host_name, p.max_num_paths,
                              p.max_num_sys_ports, fault),
             lookups, fault)

\* PowerFlexNvmeHost.remove
remove(rem, nvme_id, details, lookups, fault) ==
    LET d == RemoteDelete(rem, nvme_id)
    IN  IF fault = "delete" \/ ~d.ok
        THEN FailJson(rem, "Removing NVMe host failed",
                      <<Call("delete", Some(nvme_id), <<>>, FALSE)>>, lookups)
        ELSE Exit(d.remote, TRUE, details,
                  <<Call("delete", Some(nvme_id), <<>>, TRUE)>>, lookups)

rename_wanted_unguarded(nvme_host_new_name, nvme_host_details) ==
    nvme_host_new_name # nvme_host_details.name

\* perform_modify: "if nvme_host_new_name is not None and
\* nvme_host_new_name != nvme_host_details['name']"
rename_wanted(nvme_host_new_name, nvme_host_details) ==
    /\ nvme_host_new_name # None
    /\ nvme_host_new_name # nvme_host_details.name

\* perform_modify, first if: the rename.  The result has the shape of Exit,
\* with changed for modified and the details perform_modify was given.
modify_name(rem, nvme_host_details, nvme_host_new_name, fault) ==
    LET id == nvme_host_details.id
        r == RemoteRename(rem, id, nvme_host_new_name)
        args == <<nvme_host_new_name>>
    IN  IF rename_wanted(nvme_host_new_name, nvme_host_details)
        THEN IF fault = "rename" \/ ~r.ok
             THEN FailJson(rem, "Failed to rename NVMe host",
                           <<Call("rename", Some(id), args, FALSE)>>, 1)
             ELSE Exit(r.remote, TRUE, Some(nvme_host_details),
                       <<Call("rename", Some(id), args, TRUE)>>, 1)
        ELSE Exit(rem, FALSE, Some(nvme_host_details), <<>>, 1)

modify_limit_after_failure(c, nvme_host_details, value, op, field, fault) ==
    LET id == nvme_host_details.id
        m == RemoteModifyLimit(c.remote, id, field, value)
        args == <<value>>
    IN  IF Truthy(value) /\ value[1] # PyStr(nvme_host_details[field])
        THEN IF fault = op \/ ~m.ok
             THEN FailJson(c.remote, "Failed to modify NVMe host",
                           Append(c.calls, Call(op, Some(id), args, FALSE)), 1)
             ELSE Exit(m.remote, TRUE, Some(nvme_host_details),
                       Append(c.calls, Call(op, Some(id), args, TRUE)), 1)
        ELSE c

\* perform_modify, second and third if: one limit.  c is what the earlier
\* ifs left; op is the host.modify_* call and field the attribute it sets.
modify_limit(c, nvme_host_details, value, op, field, fault) ==
    LET id == nvme_host_details.id
        m == RemoteModifyLimit(c.remote, id, field, value)
        args == <<value>>
    IN  IF c.failed THEN c
        ELSE IF Truthy(value) /\ value[1] # PyStr(nvme_host_details[field])
        THEN IF fault = op \/ ~m.ok
             THEN FailJson(c.remote, "Failed to modify NVMe host",
                           Append(c.calls, Call(op, Some(id), args, FALSE)), 1)
             ELSE Exit(m.remote, TRUE, c.details,
                       Append(c.calls, Call(op, Some(id), args, TRUE)), 1)
        ELSE c

perform_modify_mixed(rem, nvme_host_details, nvme_host_new_name, max_num_paths, max_num_sys_ports, fault) ==
    modify_limit(
        modify_limit(
            modify_name(rem, nvme_host_details, nvme_host_new_name, fault),
            nvme_host_details, max_num_paths,
            "modify_max_num_paths", "maxNumPaths", fault),
        nvme_host_details, max_num_paths,
        "modify_max_num_sys_ports", "maxNumSysPorts", fault)

\* PowerFlexNvmeHost.perform_modify
perform_modify(rem, nvme_host_details, nvme_host_new_name, max_num_paths, max_num_sys_ports, fault) ==
    modify_limit(
        modify_limit(
            modify_name(rem, nvme_host_details, nvme_host_new_name, fault),
            nvme_host_details, max_num_paths,
            "modify_max_num_paths", "maxNumPaths", fault),
        nvme_host_details, max_num_sys_ports,
        "modify_max_num_sys_ports", "maxNumSysPorts", fault)

should_create_any_state(state, nvme_host_details) == nvme_host_details = None

\* perform_module_operation: "if state == 'present' and not nvme_host_details"
should_create(state, nvme_host_details) ==
    state = "present" /\ nvme_host_details = None

\* perform_module_operation, the three ifs on state and nvme_host_details.
\* g is what the first get_nvme_host came back with.
apply_state(rem, p, g, fault) ==
    IF p.state = "absent" /\ g.details # None
    THEN remove(rem, g.details[1].id, g.details, g.lookups, fault)
    ELSE IF p.state = "present" /\ g.details # None
    THEN perform_modify(rem, g.details[1], p.nvme_host_new_name,
                        p.max_num_paths, p.max_num_sys_ports, fault)
    ELSE IF should_create(p.state, g.details)
    THEN create_host(rem, p, g.lookups, fault)
    ELSE Exit(rem, FALSE, g.details, <<>>, g.lookups)

\* perform_module_operation, from "if changed:": fetch the host again and
\* exit.  acted is what the three ifs left.
refetch_if_changed(p, acted, fault) ==
    LET f == get_nvme_host(acted.remote,
                           p.nvme_host_id,
                           PyOr(p.nvme_host_new_name, p.nvme_host_name),
                           p.nqn, fault = "get_final")
    IN  IF acted.failed \/ ~acted.changed
        THEN acted
        ELSE IF f.failed
        THEN FailJson(acted.remote, f.msg, acted.calls,
                      acted.lookups + f.lookups)
        ELSE Exit(acted.remote, TRUE, f.details, acted.calls,
                  acted.lookups + f.lookups)

\* PowerFlexNvmeHost.perform_module_operation
nvme_perform_module_operation(rem, p, fault) ==
    LET invalid == nvme_validate_parameters(p)
        g == get_nvme_host(rem, p.nvme_host_id, p.nvme_host_name, p.nqn,
                           fault = "get")
    IN  IF invalid # "" THEN FailJson(rem, invalid, <<>>, 0)
        ELSE IF g.failed THEN FailJson(rem, g.msg, <<>>, g.lookups)
        ELSE refetch_if_changed(p, apply_state(rem, p, g, fault), fault)

----------------------------------------------------------------------------
(* plugins/modules/dellemc_powerflex_sdc.py *)

\* PowerFlexSdc.validate_parameters: "" when the parameters pass
sdc_validate_parameters(p) ==
    IF p.sdc_name = None /\ p.sdc_id = None /\ p.sdc_ip = None
    THEN "Please provide sdc_name/sdc_id/sdc_ip with valid input."
    ELSE IF IsBlank(p.sdc_name) THEN "Please provide valid sdc_name"
    ELSE IF IsBlank(p.sdc_id) THEN "Please provide valid sdc_id"
    ELSE IF IsBlank(p.sdc_ip) THEN "Please provide valid sdc_ip"
    ELSE ""

\* PowerFlexSdc.get_sdc: the first match with its mapped volumes, or None.
\* raises_get / raises_vol: sdc.get / sdc.get_mapped_volumes raises.
get_sdc(rem, sdc_name, sdc_ip, sdc_id, raises_get, raises_vol) ==
    LET found ==
            IF Truthy(sdc_name) THEN RemoteGet(rem, "name", sdc_name[1])
            ELSE IF Truthy(sdc_ip) THEN RemoteGet(rem, "sdcIp", sdc_ip[1])
            ELSE IF sdc_id # None THEN RemoteGet(rem, "id", sdc_id[1])
            ELSE {}
        sdc == First(found)
    IN  IF raises_get
        THEN [failed |-> TRUE, msg |-> "Failed to get the SDC",
              details |-> None, lookups |-> 1]
        ELSE IF found = {}
        THEN [failed |-> FALSE, msg |-> "", details |-> None, lookups |-> 1]
        ELSE IF raises_vol
        THEN [failed |-> TRUE,
              msg |-> "Failed to get the volumes mapped to SDC",
              details |-> None, lookups |-> 1]
        ELSE [failed |-> FALSE, msg |-> "",
              details |->
                Some([id |-> sdc.id, name |-> sdc.name, sdcIp |-> sdc.sdcIp,
                      mapped_volumes |-> RemoteMappedVolumes(sdc.id)]),
              lookups |-> 1]

rename_sdc_unflagged(rem, sdc_id, new_name, fault) ==
    LET r == RemoteRename(rem, sdc_id, new_name)
        args == <<new_name>>
    IN  IF fault = "rename" \/ ~r.ok
        THEN [remote |-> rem, failed |-> TRUE,
              msg |-> "Failed to rename SDC", changed |-> FALSE,
              calls |-> <<Call("rename", Some(sdc_id), args, FALSE)>>]
        ELSE [remote |-> r.remote, failed |-> FALSE, msg |-> "",
              changed |-> FALSE,
              calls |-> <<Call("rename", Some(sdc_id), args, TRUE)>>]

\* PowerFlexSdc.rename_sdc
rename_sdc(rem, sdc_id, new_name, fault) ==
    LET r == RemoteRename(rem, sdc_id, new_name)
        args == <<new_name>>
    IN  IF fault = "rename" \/ ~r.ok
        THEN [remote |-> rem, failed |-> TRUE,
              msg |-> "Failed to rename SDC", changed |-> FALSE,
              calls |-> <<Call("rename", Some(sdc_id), args, FALSE)>>]
        ELSE [remote |-> r.remote, failed |-> FALSE, msg |-> "",
              changed |-> TRUE,
              calls |-> <<Call("rename", Some(sdc_id), args, TRUE)>>]

sdc_not_found_never(state, sdc_details) == FALSE

\* perform_module_operation: "if state == 'present' and not sdc_details"
sdc_not_found(state, sdc_details) == state = "present" /\ sdc_details = None

sdc_removal_refused_always(state, sdc_details) == state = "absent"

\* perform_module_operation: "if state == 'absent' and sdc_details"
sdc_removal_refused(state, sdc_details) ==
    state = "absent" /\ sdc_details # None

\* PowerFlexSdc.perform_module_operation
sdc_perform_module_operation(rem, p, fault) ==
    LET invalid == sdc_validate_parameters(p)
        g == get_sdc(rem, p.sdc_name, p.sdc_ip, p.sdc_id, fault = "get",
                     fault = "get_mapped_volumes")
        renaming ==
            p.state = "present" /\ g.details # None /\ p.sdc_new_name # None
        r == IF renaming
             THEN rename_sdc(rem, g.details[1].id, p.sdc_new_name, fault)
             ELSE [remote |-> rem, failed |-> FALSE, msg |-> "",
                   changed |-> FALSE, calls |-> <<>>]
        \* if changed: sdc_name = sdc_new_name
        sdc_name == IF r.changed THEN p.sdc_new_name ELSE p.sdc_name
        f == get_sdc(r.remote, sdc_name, p.sdc_ip, p.sdc_id,
                     fault = "get_final", fault = "get_mapped_volumes_final")
    IN  IF invalid # "" THEN FailJson(rem, invalid, <<>>, 0)
        ELSE IF g.failed THEN FailJson(rem, g.msg, <<>>, g.lookups)
        ELSE IF sdc_not_found(p.state, g.details)
        THEN FailJson(rem, "Could not find any SDC instance with identifier",
                      <<>>, g.lookups)
        ELSE IF sdc_removal_refused(p.state, g.details)
        THEN FailJson(rem, "Removal of SDC is not allowed through Ansible module.",
                      <<>>, g.lookups)
        ELSE IF renaming /\ Len(Strip(p.sdc_new_name[1])) = 0
        THEN FailJson(rem, "Please provide valid SDC name.", <<>>, g.lookups)
        ELSE IF r.failed THEN FailJson(r.remote, r.msg, r.calls, g.lookups)
        ELSE IF p.state = "present"
        THEN IF f.failed
             THEN FailJson(r.remote, f.msg, r.calls, g.lookups + f.lookups)
             ELSE Exit(r.remote, r.changed, f.details, r.calls,
                       g.lookups + f.lookups)
        ELSE Exit(r.remote, r.changed, None, r.calls, g.lookups)

----------------------------------------------------------------------------
(* Tasks and the state they run against *)

States == {"present", "absent"}

\* what a task can pass for a name, id or IP selector: nothing, a blank, or
\* the value of resource 1 (which the remote system may or may not hold)
Selectors(value) == {None} \cup BlankValues \cup {Some(value)}

NqnValues == {None} \cup BlankValues \cup {Some(Nqn(k)) : k \in Index}

NewNames ==
    {None} \cup BlankValues \cup {Some(Name(k)) : k \in Index}
        \cup {Some(FreshName)}

LimitValues == {None, Some(EmptyStr)} \cup {Some(PyStr(n)) : n \in 1..MaxLimit}

\* get_powerflex_nvme_host_parameters, with the required_one_of and
\* mutually_exclusive rules AnsibleModule enforces before the module runs
NvmeParams ==
    {p \in [nvme_host_id : Selectors(Id(1)),
            nvme_host_name : Selectors(Name(1)),
            nvme_host_new_name : NewNames,
            nqn : NqnValues,
            max_num_paths : LimitValues,
            max_num_sys_ports : LimitValues,
            state : States] :
        /\ ~(p.nvme_host_name # None /\ p.nvme_host_id # None)
        /\ (p.nvme_host_name # None \/ p.nvme_host_id # None \/ p.nqn # None)}

\* get_powerflex_sdc_parameters, with the rules of PowerFlexSdc.__init__:
\* exactly one of sdc_id, sdc_ip, sdc_name
SdcParams ==
    {p \in [sdc_id : Selectors(Id(1)),
            sdc_ip : Selectors(Ip(1)),
            sdc_name : Selectors(Name(1)),
            sdc_new_name : NewNames,
            state : States] :
        Cardinality({f \in {"sdc_id", "sdc_ip", "sdc_name"} : p[f] # None}) = 1}

\* NVMe host k as the remote system holds it
NvmeHost(k, paths, ports) ==
    [id |-> Id(k), name |-> Some(Name(k)), nqn |-> Nqn(k),
     maxNumPaths |-> paths, maxNumSysPorts |-> ports]

\* SDC k as the remote system holds it
Sdc(k) == [id |-> Id(k), name |-> Some(Name(k)), sdcIp |-> Ip(k)]

NoResult ==
    [ran |-> FALSE, failed |-> FALSE, msg |-> "", changed |-> FALSE,
     details |-> None, calls |-> <<>>, lookups |-> 0]

\* what the caller of an invocation sees, with the calls it issued
Outcome(out) ==
    [ran |-> TRUE, failed |-> out.failed, msg |-> out.msg,
     changed |-> out.changed, details |-> out.details, calls |-> out.calls,
     lookups |-> out.lookups]

Init ==
    /\ module \in {"sdc", "nvme_host"}
    /\ IF module = "sdc"
       THEN /\ params \in SdcParams
            /\ \E present \in SUBSET Index :
                 remote = {Sdc(k) : k \in present}
       ELSE /\ params \in NvmeParams
            /\ \E present \in SUBSET Index, paths, ports \in 1..MaxLimit :
                 remote = {NvmeHost(k, paths, ports) : k \in present}
    /\ before = remote
    /\ result = NoResult

\* one run of the SDC task: main() of dellemc_powerflex_sdc.py
SdcRun ==
    /\ module = "sdc"
    /\ \E fault \in SdcFaults :
         LET out == sdc_perform_module_operation(remote, params, fault)
         IN  /\ remote' = out.remote
             /\ before' = remote
             /\ result' = Outcome(out)
    /\ UNCHANGED <<module, params>>

\* one run of the NVMe host task: main() of nvme_host.py
NvmeRun ==
    /\ module = "nvme_host"
    /\ \E fault \in NvmeFaults :
         LET out == nvme_perform_module_operation(remote, params, fault)
         IN  /\ remote' = out.remote
             /\ before' = remote
             /\ result' = Outcome(out)
    /\ UNCHANGED <<module, params>>

Next == SdcRun \/ NvmeRun

Spec == Init /\ [][Next]_vars

----------------------------------------------------------------------------
(* Vocabulary of the claims *)

RemoteFailureMsgs ==
    {"Failed to get the NVMe host", "Create NVMe host operation failed",
     "Removing NVMe host failed", "Failed to rename NVMe host",
     "Failed to modify NVMe host", "Failed to get the SDC",
     "Failed to get the volumes mapped to SDC", "Failed to rename SDC"}

NotFoundMsgs ==
    {"Unable to find NVMe host with identifier",
     "Could not find any SDC instance with identifier",
     "nqn parameter is required for creating an NVMe host."}

InvalidIdentifierMsgs ==
    {"Please provide valid nvme_host_id", "Please provide valid nvme_host_name",
     "Please provide valid NQN.", "Please provide valid sdc_name",
     "Please provide valid sdc_id", "Please provide valid sdc_ip"}

InvalidInputMsgs == {"Please provide valid SDC name."}

UnsupportedMsgs == {"Removal of SDC is not allowed through Ansible module."}

Succeeded == result.ran /\ ~result.failed

\* the last invocation ended because a remote call raised
RemoteFailed == result.ran /\ result.failed /\ result.msg \in RemoteFailureMsgs

\* the resource the first lookup of the last invocation came back with
\* (None: no match, or the lookup did not come back)
NvmeFound ==
    get_nvme_host(before, params.nvme_host_id, params.nvme_host_name,
                  params.nqn, FALSE).details

SdcFound ==
    get_sdc(before, params.sdc_name, params.sdc_ip, params.sdc_id, FALSE,
            FALSE).details

NvmeValid == nvme_validate_parameters(params) = ""

SdcValid == sdc_validate_parameters(params) = ""

OkCalls == SelectSeq(result.calls, LAMBDA c : c.ok)

\* the first lookup of the last invocation was made and matched nothing
NvmeLookupEmpty ==
    /\ NvmeValid
    /\ Truthy(params.nvme_host_name) \/ Truthy(params.nvme_host_id)
          \/ Truthy(params.nqn)
    /\ (IF Truthy(params.nvme_host_name)
        THEN RemoteGet(before, "name", params.nvme_host_name[1])
        ELSE IF Truthy(params.nvme_host_id)
        THEN RemoteGet(before, "id", params.nvme_host_id[1])
        ELSE RemoteGet(before, "nqn", params.nqn[1])) = {}

SdcLookupEmpty == SdcValid /\ SdcFound = None

NoOp ==
    /\ Succeeded
    /\ ~result.changed
    /\ result.details = None
    /\ result.calls = <<>>
    /\ remote = before

----------------------------------------------------------------------------
(* C1 *)

\* C1: run twice in a row, a task whose first run succeeded with changed=true
\* succeeds again with changed=false, no mutating call and the same details
\* (a second run that ends on a raising remote call aside).
C1_Idempotent ==
    [][(/\ result.ran /\ ~result.failed /\ result.changed
        /\ result'.ran /\ result'.msg \notin RemoteFailureMsgs)
       => (/\ ~result'.failed
           /\ ~result'.changed
           /\ result'.calls = <<>>
           /\ result'.details = result.details)]_vars

----------------------------------------------------------------------------
(* C2 *)

\* C2: NVMe host, state=absent, the lookup finds a host: one delete call for
\* that host's id, then success with changed=true, whatever the selector.
C2_DeleteSucceeds ==
    (/\ module = "nvme_host" /\ result.ran /\ params.state = "absent"
     /\ NvmeValid /\ NvmeFound # None /\ ~RemoteFailed)
    => (/\ ~result.failed
        /\ result.changed
        /\ result.calls = <<Call("delete", Some(NvmeFound[1].id), <<>>, TRUE)>>)

----------------------------------------------------------------------------
(* C3 *)

\* C3 as stated: SDC, state=absent, valid selectors: always the 'removal not
\* allowed' failure and no mutating call, whether or not the SDC exists.
C3_AbsentAlwaysRefused ==
    (/\ module = "sdc" /\ result.ran /\ params.state = "absent"
     /\ SdcValid /\ ~RemoteFailed)
    => (/\ result.failed
        /\ result.msg \in UnsupportedMsgs
        /\ result.calls = <<>>)

\* C3 as amended: SDC, state=absent, valid selectors: no mutating call; the
\* 'removal not allowed' failure when the identified SDC exists, and a
\* successful no-op with changed=false when it does not.
C3_AbsentRefusedWhenExists ==
    (/\ module = "sdc" /\ result.ran /\ params.state = "absent"
     /\ SdcValid /\ ~RemoteFailed)
    => (/\ result.calls = <<>>
        /\ remote = before
        /\ IF SdcFound # None
           THEN result.failed /\ result.msg \in UnsupportedMsgs
           ELSE NoOp)

C3_Witness ==
    /\ module = "sdc" /\ result.ran /\ params.state = "absent"
    /\ SdcFound # None
    /\ result.failed /\ result.msg \in UnsupportedMsgs

----------------------------------------------------------------------------
(* C4 *)

\* an id selector was supplied and the lookup by it matched nothing
IdLookupEmpty ==
    IF module = "sdc"
    THEN SdcValid /\ params.sdc_id # None /\ SdcFound = None
    ELSE NvmeLookupEmpty /\ params.nvme_host_id # None

\* C4 as stated: an id selector with zero matches is a not-found failure with
\* no mutating call, for both kinds and both states.
C4_IdNotFoundFails ==
    (result.ran /\ IdLookupEmpty /\ ~RemoteFailed)
    => (/\ result.failed
        /\ result.msg \in NotFoundMsgs
        /\ result.calls = <<>>)

\* C4 as amended: an id selector with zero matches issues no mutating call and
\* is a not-found failure, except for the SDC kind with state=absent, where
\* the invocation succeeds as a no-op with changed=false.
C4_IdNotFound ==
    (result.ran /\ IdLookupEmpty /\ ~RemoteFailed)
    => (/\ result.calls = <<>>
        /\ remote = before
        /\ IF module = "sdc" /\ params.state = "absent"
           THEN NoOp
           ELSE result.failed /\ result.msg \in NotFoundMsgs)

C4_Witness ==
    /\ module = "nvme_host" /\ result.ran /\ params.state = "absent"
    /\ IdLookupEmpty
    /\ result.failed /\ result.msg \in NotFoundMsgs

----------------------------------------------------------------------------
(* C5 *)

\* a name, IP or NQN selector (no id) was supplied and the lookup matched
\* nothing
NonIdLookupEmpty ==
    IF module = "sdc"
    THEN SdcLookupEmpty /\ params.sdc_id = None
    ELSE NvmeLookupEmpty /\ params.nvme_host_id = None

\* C5: state=absent, a non-id selector, zero matches: success as a no-op
\* (changed=false, no details, no mutating call), new name and limits supplied
\* or not.
C5_AbsentMissingIsNoOp ==
    (result.ran /\ params.state = "absent" /\ NonIdLookupEmpty /\ ~RemoteFailed)
    => NoOp

C5_Witness ==
    /\ module = "nvme_host" /\ result.ran /\ params.state = "absent"
    /\ NonIdLookupEmpty
    /\ Truthy(params.nvme_host_new_name) /\ Truthy(params.max_num_paths)
    /\ NoOp

----------------------------------------------------------------------------
(* C6 *)

\* the first lookup of the last invocation itself raised
FirstLookupRaised ==
    /\ RemoteFailed
    /\ result.calls = <<>>
    /\ result.lookups = 1
    /\ result.msg \in {"Failed to get the NVMe host", "Failed to get the SDC",
                       "Failed to get the volumes mapped to SDC"}

\* state=present, the lookup came back empty, a non-blank nqn and no new name
CreateCase ==
    /\ module = "nvme_host" /\ result.ran /\ params.state = "present"
    /\ NvmeLookupEmpty /\ params.nvme_host_id = None
    /\ ~FirstLookupRaised
    /\ Truthy(params.nqn) /\ ~IsBlank(params.nqn)
    /\ params.nvme_host_new_name = None

\* C6: NVMe host, state=present, no host found, a non-blank nqn and no new
\* name: exactly one create call carrying nqn, name and both limits, no other
\* mutating call, and (unless a remote call raises) success with changed=true
\* and nvme_host_details the created host as the remote system now holds it.
C6_Create ==
    CreateCase
    => (/\ Len(result.calls) = 1
        /\ result.calls[1].op = "create"
        /\ result.calls[1].args =
             <<params.nqn, params.nvme_host_name, params.max_num_paths,
               params.max_num_sys_ports>>
        /\ ~RemoteFailed
           => (/\ Succeeded
               /\ result.changed
               /\ result.details # None
               /\ result.details[1] \notin before
               /\ remote = before \cup {result.details[1]}
               /\ result.details[1].nqn = params.nqn[1]
               /\ result.details[1].name = params.nvme_host_name))

C6_Witness ==
    /\ CreateCase
    /\ params.nvme_host_name # None /\ Truthy(params.max_num_paths)
    /\ Succeeded /\ result.changed
    /\ result.details # None /\ result.details[1] \notin before

----------------------------------------------------------------------------
(* C7 *)

\* state=present, the lookup came back empty and nothing to create from
NoTokenCase ==
    /\ result.ran /\ params.state = "present" /\ ~FirstLookupRaised
    /\ IF module = "sdc"
       THEN SdcLookupEmpty
       ELSE NvmeLookupEmpty /\ params.nqn = None

\* C7: state=present, no matching resource, no creation token (SDC: always;
\* NVMe host: nqn not supplied): a not-found failure and no mutating call.
C7_NoTokenNotFound ==
    NoTokenCase
    => (/\ result.failed
        /\ result.msg \in NotFoundMsgs
        /\ result.calls = <<>>
        /\ remote = before)

C7_Witness ==
    /\ NoTokenCase /\ module = "nvme_host" /\ params.nvme_host_name # None
    /\ result.failed
    /\ result.msg = "nqn parameter is required for creating an NVMe host."

----------------------------------------------------------------------------
(* C8 *)

BlankSelector ==
    IF module = "sdc"
    THEN IsBlank(params.sdc_name) \/ IsBlank(params.sdc_id)
            \/ IsBlank(params.sdc_ip)
    ELSE IsBlank(params.nvme_host_name) \/ IsBlank(params.nvme_host_id)
            \/ IsBlank(params.nqn)

\* C8: an invocation with an empty or whitespace-only selector (sdc_name,
\* sdc_id, sdc_ip, nvme_host_name, nvme_host_id or nqn) fails with an
\* invalid-identifier error and issues no mutating call, in both states.
C8_BlankSelectorFails ==
    (result.ran /\ BlankSelector)
    => (/\ result.failed
        /\ result.msg \in InvalidIdentifierMsgs
        /\ result.calls = <<>>)

----------------------------------------------------------------------------
(* C9 *)

\* a blank new name, in an invocation that gets as far as the rename: valid
\* selectors, state=present, and a lookup that found the resource
BlankNewNameCase ==
    /\ result.ran /\ params.state = "present" /\ ~FirstLookupRaised
    /\ IF module = "sdc"
       THEN SdcValid /\ SdcFound # None /\ IsBlank(params.sdc_new_name)
       ELSE NvmeValid /\ NvmeFound # None
                /\ IsBlank(params.nvme_host_new_name)

\* C9: a blank new name (sdc_new_name / nvme_host_new_name) is an
\* invalid-input failure, and no rename call is issued with it.
C9_BlankNewNameFails ==
    BlankNewNameCase
    => (/\ result.failed
        /\ result.msg \in InvalidInputMsgs
        /\ \A i \in 1..Len(result.calls) : result.calls[i].op # "rename")

----------------------------------------------------------------------------
(* C10 *)

\* the resource the last invocation worked on, as it was and as it is
Target == IF module = "sdc" THEN SdcFound ELSE NvmeFound

TargetBefore == CHOOSE r \in before : r.id = Target[1].id

TargetNow == CHOOSE r \in remote : r.id = Target[1].id

ModifyCase ==
    /\ result.ran /\ params.state = "present" /\ ~FirstLookupRaised
    /\ IF module = "sdc" THEN SdcValid ELSE NvmeValid
    /\ Target # None

CalledOps == {result.calls[i].op : i \in 1..Len(result.calls)}

\* C10: for an existing resource with state=present, a field the task does
\* not supply is neither sent nor changed: without a new name no rename and
\* the same name, without max_num_paths no modify_max_num_paths and the same
\* maxNumPaths, likewise maxNumSysPorts; no other resource changes.
C10_SparsePatch ==
    ModifyCase
    => (/\ \E r \in remote : r.id = Target[1].id
        /\ remote \ {TargetNow} = before \ {TargetBefore}
        /\ CalledOps \subseteq
             {"rename", "modify_max_num_paths", "modify_max_num_sys_ports"}
        /\ IF module = "sdc"
           THEN /\ TargetNow.sdcIp = TargetBefore.sdcIp
                /\ params.sdc_new_name = None
                   => (TargetNow = TargetBefore /\ result.calls = <<>>)
           ELSE /\ TargetNow.nqn = TargetBefore.nqn
                /\ params.nvme_host_new_name = None
                   => (/\ "rename" \notin CalledOps
                       /\ TargetNow.name = TargetBefore.name)
                /\ params.max_num_paths = None
                   => (/\ "modify_max_num_paths" \notin CalledOps
                       /\ TargetNow.maxNumPaths = TargetBefore.maxNumPaths)
                /\ params.max_num_sys_ports = None
                   => (/\ "modify_max_num_sys_ports" \notin CalledOps
                       /\ TargetNow.maxNumSysPorts
                            = TargetBefore.maxNumSysPorts))

\* only a new name: the rename went through and both limits are as they were
C10_Witness ==
    /\ ModifyCase /\ module = "nvme_host"
    /\ params.nvme_host_new_name # None
    /\ params.max_num_paths = None /\ params.max_num_sys_ports = None
    /\ Succeeded /\ result.changed
    /\ TargetNow.name = params.nvme_host_new_name
    /\ TargetNow.name # TargetBefore.name
    /\ TargetNow.maxNumPaths = TargetBefore.maxNumPaths
    /\ TargetNow.maxNumSysPorts = TargetBefore.maxNumSysPorts

----------------------------------------------------------------------------
(* C11 *)

\* the resource the last invocation targeted, as the remote system holds it
\* now: the one the first lookup found, else the one the invocation created
TargetedNow ==
    IF Target # None
    THEN {r \in remote : r.id = Target[1].id}
    ELSE remote \ before

\* a record of the remote system as the module reports it
Reported(r) ==
    IF module = "sdc"
    THEN [id |-> r.id, name |-> r.name, sdcIp |-> r.sdcIp,
          mapped_volumes |-> RemoteMappedVolumes(r.id)]
    ELSE r

\* C11: after a successful invocation the details in the result are the
\* remote system's record of the targeted resource as it stands now: none
\* exactly when the resource does not exist, else its current record (name,
\* limits; for an SDC with its mapped volumes).
C11_FinalDetails ==
    Succeeded
    => (IF TargetedNow = {}
        THEN result.details = None
        ELSE \E r \in TargetedNow : result.details = Some(Reported(r)))

----------------------------------------------------------------------------
(* C12 *)

\* state=present, valid selectors, the lookup found the resource, and the
\* task supplies no new name and no limit
GetCase ==
    /\ ModifyCase
    /\ IF module = "sdc"
       THEN params.sdc_new_name = None
       ELSE /\ params.nvme_host_new_name = None
            /\ params.max_num_paths = None
            /\ params.max_num_sys_ports = None

----------------------------------------------------------------------------
(* C13 *)

\* the task supplies a name that is not blank and is not the current name
NameDiffers(desired, current) ==
    desired # None /\ ~IsBlank(desired) /\ desired # current

\* the task supplies a limit that is not empty and, as a string, is not the
\* current limit
LimitDiffers(desired, current) ==
    Truthy(desired) /\ desired[1] # PyStr(current)

\* C13: for an existing resource with state=present, when no remote call
\* raises, the call for a field is issued exactly when the task supplies a
\* non-empty value for it that differs from the current one (limits compared
\* as strings); when no field differs there is no mutating call and
\* changed=false.
C13_DiffSemantics ==
    (ModifyCase /\ ~RemoteFailed)
    => IF module = "sdc"
       THEN /\ "rename" \in CalledOps
                 <=> NameDiffers(params.sdc_new_name, TargetBefore.name)
            /\ ~NameDiffers(params.sdc_new_name, TargetBefore.name)
                 => (result.calls = <<>> /\ ~result.changed)
       ELSE /\ "rename" \in CalledOps
                 <=> NameDiffers(params.nvme_host_new_name, TargetBefore.name)
            /\ "modify_max_num_paths" \in CalledOps
                 <=> LimitDiffers(params.max_num_paths,
                                  TargetBefore.maxNumPaths)
            /\ "modify_max_num_sys_ports" \in CalledOps
                 <=> LimitDiffers(params.max_num_sys_ports,
                                  TargetBefore.maxNumSysPorts)
            /\ (/\ ~NameDiffers(params.nvme_host_new_name, TargetBefore.name)
                /\ ~LimitDiffers(params.max_num_paths,
                                 TargetBefore.maxNumPaths)
                /\ ~LimitDiffers(params.max_num_sys_ports,
                                 TargetBefore.maxNumSysPorts))
                 => (result.calls = <<>> /\ ~result.changed)

----------------------------------------------------------------------------
(* C14 *)

Ids(records) == {r.id : r \in records}

\* the ids the mutating calls of the last invocation were addressed to
CallIds ==
    {result.calls[i].id[1] :
        i \in {j \in 1..Len(result.calls) : result.calls[j].id # None}}

AsDetails(match) ==
    IF match = {} THEN None ELSE Some(Reported(First(match)))

\* the last invocation worked on the resource of match and on no other: its
\* calls are addressed to it, it creates nothing when there is a match, and
\* when it changes nothing it reports that resource
ResolvedTo(match) ==
    /\ CallIds \subseteq Ids(match)
    /\ match # {} => "create" \notin CalledOps
    /\ (Succeeded /\ ~result.changed)
         => IF match = {}
            THEN result.details = None
            ELSE result.details # None
                    /\ result.details[1].id \in Ids(match)

\* the records a selector matches; none when the selector is not supplied
BySelector(rem, field, value) ==
    IF Truthy(value) THEN RemoteGet(rem, field, value[1]) ELSE {}

\* name first, then the alternate token, then the id; the first selector
\* that yields a match determines the resource
NameTokenId(rem, name, field, token, id) ==
    IF BySelector(rem, "name", name) # {} THEN BySelector(rem, "name", name)
    ELSE IF BySelector(rem, field, token) # {}
    THEN BySelector(rem, field, token)
    ELSE BySelector(rem, "id", id)

\* the first supplied selector of the order name, first, second, and no
\* other, whether it matches or not
FirstSupplied(rem, name, field1, first, field2, second) ==
    IF Truthy(name) THEN BySelector(rem, "name", name)
    ELSE IF Truthy(first) THEN BySelector(rem, field1, first)
    ELSE BySelector(rem, field2, second)

\* an NVMe host task with more than one selector, run as far as the lookup
SeveralSelectors ==
    /\ module = "nvme_host" /\ result.ran /\ NvmeValid /\ ~FirstLookupRaised
    /\ Cardinality({f \in {"nvme_host_name", "nvme_host_id", "nqn"} :
                      params[f] # None}) > 1

\* an SDC task whose rename went through: the re-fetch has the new name and
\* the selector of the task
SdcRenamed == module = "sdc" /\ Succeeded /\ result.changed

\* C14 as stated: with more than one selector the resource is resolved by
\* name, then the alternate token (nqn, sdc_ip), then the id, the first that
\* matches deciding; the final re-fetch resolves in the same order.
C14_NameTokenId ==
    /\ (SeveralSelectors /\ ~BlankSelector)
         => /\ ResolvedTo(NameTokenId(before, params.nvme_host_name, "nqn",
                                      params.nqn, params.nvme_host_id))
            /\ (Succeeded /\ result.changed
                    /\ params.nvme_host_new_name = None)
                 => result.details =
                      AsDetails(NameTokenId(remote, params.nvme_host_name,
                                            "nqn", params.nqn,
                                            params.nvme_host_id))
    /\ SdcRenamed
         => result.details =
              AsDetails(NameTokenId(remote, params.sdc_new_name, "sdcIp",
                                    params.sdc_ip, params.sdc_id))

\* C14 as amended: a lookup uses one selector only, the first non-empty one
\* in the order name, id, nqn for an NVMe host and name, IP, id for an SDC,
\* and tries no other when that one matches nothing; the final re-fetch uses
\* the same order, with the new name (if non-empty) in place of the name.
C14_FirstSuppliedOnly ==
    /\ SeveralSelectors
         => /\ ResolvedTo(FirstSupplied(before, params.nvme_host_name, "id",
                                        params.nvme_host_id, "nqn",
                                        params.nqn))
            /\ (Succeeded /\ result.changed)
                 => result.details =
                      AsDetails(FirstSupplied(
                          remote,
                          PyOr(params.nvme_host_new_name,
                               params.nvme_host_name),
                          "id", params.nvme_host_id, "nqn", params.nqn))
    /\ SdcRenamed
         => result.details =
              AsDetails(FirstSupplied(remote, params.sdc_new_name, "sdcIp",
                                      params.sdc_ip, "id", params.sdc_id))

\* id and nqn of two different hosts: the host of the id is the one reported
C14_Witness ==
    /\ SeveralSelectors
    /\ BySelector(before, "id", params.nvme_host_id) # {}
    /\ BySelector(before, "nqn", params.nqn) # {}
    /\ BySelector(before, "id", params.nvme_host_id)
         # BySelector(before, "nqn", params.nqn)
    /\ Succeeded /\ ~result.changed
    /\ result.details = AsDetails(BySelector(before, "id", params.nvme_host_id))

----------------------------------------------------------------------------
(* C15 *)

\* the order in which perform_modify applies the fields
ModifySequence ==
    <<"rename", "modify_max_num_paths", "modify_max_num_sys_ports">>

OpRank(op) == CHOOSE k \in 1..Len(ModifySequence) : ModifySequence[k] = op

\* the value the task asks for with a call of the modify sequence
Desired(op) ==
    IF op = "rename" THEN params.nvme_host_new_name
    ELSE IF op = "modify_max_num_paths" THEN params.max_num_paths
    ELSE params.max_num_sys_ports

\* the host has what the call c set
Applied(c) ==
    IF c.op = "rename" THEN TargetNow.name = c.args[1]
    ELSE IF c.op = "modify_max_num_paths"
    THEN TargetNow.maxNumPaths = ParseInt(c.args[1][1])
    ELSE TargetNow.maxNumSysPorts = ParseInt(c.args[1][1])

\* a call of the NVMe host modify sequence failed
PartialFailure ==
    /\ module = "nvme_host" /\ ModifyCase
    /\ \E i \in 1..Len(result.calls) : ~result.calls[i].ok

\* C15: when a call of the NVMe host modify sequence (rename, max_num_paths,
\* max_num_sys_ports) fails, the invocation fails, the failed call is the
\* last call (no later field, no retry, no rollback: every call is for the
\* found host, in sequence order, each field at most once, with the value the
\* task asks for), and every earlier call that succeeded stays applied.
C15_PartialFailure ==
    PartialFailure
    => (/\ result.failed
        /\ result.msg \in RemoteFailureMsgs
        /\ \A i \in 1..Len(result.calls) :
             /\ result.calls[i].ok <=> i < Len(result.calls)
             /\ result.calls[i].op \in
                  {ModifySequence[k] : k \in 1..Len(ModifySequence)}
             /\ result.calls[i].id = Some(Target[1].id)
             /\ result.calls[i].args = <<Desired(result.calls[i].op)>>
             /\ \A j \in 1..Len(result.calls) :
                  i < j => OpRank(result.calls[i].op)
                              < OpRank(result.calls[j].op)
             /\ result.calls[i].ok => Applied(result.calls[i])
        /\ remote \ {TargetNow} = before \ {TargetBefore})

\* the rename and the first limit went through, the second limit failed
C15_Witness ==
    /\ PartialFailure
    /\ Len(result.calls) = 3
    /\ result.calls[1].ok /\ result.calls[2].ok /\ ~result.calls[3].ok
    /\ result.failed
    /\ TargetNow.name = params.nvme_host_new_name
    /\ TargetNow.name # TargetBefore.name
    /\ TargetNow.maxNumPaths # TargetBefore.maxNumPaths
    /\ TargetNow.maxNumSysPorts = TargetBefore.maxNumSysPorts

----------------------------------------------------------------------------
(* C16 *)

\* C16: a successful invocation reports changed=true exactly when it issued
\* a mutating call (create, rename, limit modify, delete) that the remote
\* system carried out; an invocation that issued no mutating call reports
\* changed=false and leaves the remote system as it was.
C16_ChangedAccurate ==
    /\ Succeeded => (result.changed <=> Len(OkCalls) > 0)
    /\ (result.ran /\ result.calls = <<>>)
         => (~result.changed /\ remote = before)

\* an SDC rename that went through
C16_Witness ==
    /\ module = "sdc" /\ Succeeded /\ result.changed
    /\ Len(OkCalls) = 1
    /\ OkCalls[1].op = "rename"
    /\ remote # before

====
